---- MODULE Spec2Model ----
(***************************************************************************)
(* Verification model of five parts of the repository:                     *)
(*   - run_customized_training_loop (official/bert/model_training_utils.py)*)
(*   - run_experiment               (official/core/train_lib.py)           *)
(*   - CocoDetectionEvaluator / CocoMaskEvaluator                          *)
(*                  (research/object_detection/metrics/coco_evaluation.py) *)
(*   - IouSimilarity        (official/vision/keras_cv/ops/iou_similarity.py)*)
(*   - extract_features  (research/delf/delf/python/delg/extract_features.py)*)
(* Each driver has its own specification over the shared variable list;    *)
(* the variables of the other drivers stay at their initial value.         *)
(***************************************************************************)
EXTENDS Integers, Sequences, FiniteSets, TLC

\* ------------------------------------------------------------------ bounds
MaxStepsPerEpoch == 3
MaxStepsPerLoop  == 3
MaxEpochs        == 2
MaxEvalSteps     == 2
MaxCallbacks     == 2
MaxRestoredStep  == 4
MaxMissing       == 1
MaxTrainSteps      == 2
MaxValidationSteps == 2
MaxInterval        == 2
MaxCheckpoints     == 2
MaxBoxes           == 1
MaxAnnotationId    == 3
MaxRounds          == 2
NumMetricNames     == 3
MaxNumBoxes        == 2
MaxBatch           == 2
MaxImages          == 2
MaxRuns            == 2

\* ---------------------------------------------------------------- state
\* run_customized_training_loop
VARIABLES
  none,              \* names of the arguments passed as None
  sentinel,          \* TRUE iff _sentinel is not None
  steps_per_epoch,
  steps_per_loop,    \* argument, reassigned by the clamp at line 157
  epochs,
  eval_steps,
  metric_callable,   \* callable(metric_fn), when metric_fn is given
  n_callbacks,       \* len(custom_callbacks); 0 also stands for None
  python,            \* major version of the interpreter (2 or 3)
  pc,                \* position in the function body
  exc,               \* exception that left the function, "" if none
  model_built,       \* model_fn() has been called
  restored,          \* checkpoints restored so far ("init", "latest")
  current_step,
  steps,             \* result of _steps_to_run for the running loop
  i,                 \* replicated steps done inside train_step
  j,                 \* test steps done inside _run_evaluation
  start_step,        \* optimizer.iterations right after the restore
  events             \* observable calls: callbacks, steps, saves, tests

ctlVars == <<none, sentinel, steps_per_epoch, steps_per_loop, epochs,
             eval_steps, metric_callable, n_callbacks, python, pc, exc,
             model_built, restored, current_step, steps, i, j, start_step,
             events>>

ctlArgs == <<none, sentinel, steps_per_epoch, epochs, eval_steps,
             metric_callable, n_callbacks, python>>

\* run_experiment
VARIABLES
  mode,                \* the mode string, as a sequence of characters
  run_post_eval,
  train_steps,         \* params.trainer.train_steps
  validation_steps,    \* params.trainer.validation_steps
  validation_interval, \* params.trainer.validation_interval
  loop_steps,          \* params.trainer.steps_per_loop
  x_pc,                \* position in run_experiment
  x_exc,               \* exception that left run_experiment, "" if none
  trainer,             \* the flags create_trainer was called with
  controller,          \* the arguments orbit.Controller was built with
  global_step,         \* trainer.global_step
  entry_calls,         \* controller entry points called by run_experiment
  trained,             \* train steps run
  evaluations,         \* eval step counts of the controller's evaluations
  post_evals,          \* eval step counts of the trainer.evaluate post-evals
  target,              \* step the running controller.train call trains to
  result               \* the mapping run_experiment returned

expVars == <<mode, run_post_eval, train_steps, validation_steps,
             validation_interval, loop_steps, x_pc, x_exc, trainer,
             controller, global_step, entry_calls, trained, evaluations,
             post_evals, target, result>>

expArgs == <<mode, run_post_eval, train_steps, validation_steps,
             validation_interval, loop_steps>>

\* CocoDetectionEvaluator / CocoMaskEvaluator and the metric ops
VARIABLES
  evaluator,        \* the evaluator object: its class and its fields
  session,          \* the session.run of value ops in progress, if any
  n_evaluate,       \* number of evaluate() calls made by first_value_func
  last_call,        \* the last method call and its outcome
  gt_since_clear,   \* image ids given groundtruth since __init__ / clear()
  det_since_clear   \* image ids given detections since __init__ / clear()

cocoVars == <<evaluator, session, n_evaluate, last_call, gt_since_clear,
              det_since_clear>>

\* IouSimilarity.__call__
VARIABLES
  groundtruth_boxes, \* argument: a tensor of rank 1, 2 or 3
  anchors,           \* argument: a tensor of rank 1, 2 or 3
  iou_pc,            \* position inside __call__ / iou
  iou_exc,           \* the exception raised, "" if none
  intersections,     \* local of iou
  gt_boxes_areas,    \* local of iou
  boxes_areas,       \* local of iou
  unions,            \* local of iou
  iou_result         \* the tensor returned

iouVars == <<groundtruth_boxes, anchors, iou_pc, iou_exc, intersections,
             gt_boxes_areas, boxes_areas, unions, iou_result>>

\* the DELG extract_features program
VARIABLES
  image_list,       \* the image names read from the dataset file
  output_files,     \* the files present in output_features_dir
  delg_pc,          \* position inside main
  image_index,      \* the loop variable i of main
  runs,             \* number of times the program was started
  completed,        \* the runs that reached the end of the image list
  delg_log          \* what each run did for each image

delgVars == <<image_list, output_files, delg_pc, image_index, runs,
              completed, delg_log>>

\* the variables each driver leaves alone
notCtl  == <<expVars, cocoVars, iouVars, delgVars>>
notExp  == <<ctlVars, cocoVars, iouVars, delgVars>>
notCoco == <<ctlVars, expVars, iouVars, delgVars>>
notIou  == <<ctlVars, expVars, cocoVars, delgVars>>
notDelg == <<ctlVars, expVars, cocoVars, iouVars>>

\* =======================================================================
\*  run_customized_training_loop
\* =======================================================================
\* required_arguments, lines 145-147
required_arguments ==
  {"strategy", "model_fn", "loss_fn", "model_dir", "steps_per_epoch",
   "train_input_fn"}

\* arguments whose default is None (lines 89-94)
OptionalArgs == {"eval_input_fn", "eval_steps", "metric_fn",
                 "init_checkpoint"}

Given(arg) == arg \notin none

Event(op, step, cb) == [op |-> op, step |-> step, cb |-> cb]

\* the on_batch_begin / on_batch_end calls of one loop iteration, in list order
RECURSIVE CallbackEvents(_, _, _)
CallbackEvents(op, batch, n) ==
  IF n = 0 THEN <<>>
  ELSE Append(CallbackEvents(op, batch, n - 1), Event(op, batch, n))

Min(a, b) == IF a <= b THEN a ELSE b

\* mutant of _steps_to_run: the position inside the epoch is ignored
_steps_to_run_whole_loop(cur, spe, spl) == spl

\* _steps_to_run, lines 66-74
_steps_to_run(cur, spe, spl) ==
  IF spl <= 1 THEN spl
  ELSE LET remainder_in_epoch == cur % spe IN
       IF remainder_in_epoch # 0
       THEN Min(spe - remainder_in_epoch, spl)
       ELSE spl

\* line 174
total_training_steps == steps_per_epoch * epochs

\* mutant of AtEpochEnd: only every other epoch end is recognised
AtEpochEndEveryOther(cur, spe) == cur % (2 * spe) = 0

\* line 307
AtEpochEnd(cur, spe) == cur % spe = 0

\* mutant of SaveInsideLoop: the loop also saves after the last step
SaveInsideLoopAlways(cur, total) == TRUE

\* line 310
SaveInsideLoop(cur, total) == cur < total

CtlInit ==
  /\ none \in {s \in SUBSET (required_arguments \cup OptionalArgs
                             \cup {"steps_per_loop"}) :
                 Cardinality(s \cap (required_arguments
                                     \cup {"steps_per_loop"})) <= MaxMissing}
  /\ sentinel \in BOOLEAN
  /\ steps_per_epoch \in 1..MaxStepsPerEpoch
  /\ steps_per_loop \in 1..MaxStepsPerLoop
  /\ epochs \in 0..MaxEpochs
  /\ eval_steps \in 0..MaxEvalSteps
  /\ metric_callable \in BOOLEAN
  /\ n_callbacks \in 0..MaxCallbacks
  /\ python \in {2, 3}
  \* a None argument carries no value: keep one representative
  /\ ("steps_per_epoch" \in none => steps_per_epoch = 1)
  /\ ("steps_per_loop" \in none => steps_per_loop = 1)
  /\ ("eval_steps" \in none => eval_steps = 0)
  /\ ("metric_fn" \in none => metric_callable)
  /\ pc = "start"
  /\ exc = ""
  /\ model_built = FALSE
  /\ restored = {}
  /\ current_step = 0
  /\ steps = 0
  /\ i = 0
  /\ j = 0
  /\ start_step = 0
  /\ events = <<>>

Raise(e) ==
  /\ pc' = "raised"
  /\ exc' = e

\* lines 141-166: argument validation and the steps_per_loop clamp
Validate ==
  /\ pc = "start"
  /\ UNCHANGED <<ctlArgs, model_built, restored, current_step, steps, i, j,
                 start_step, events>>
  /\ IF sentinel
     THEN Raise("ValueError") /\ UNCHANGED steps_per_loop
     ELSE IF required_arguments \cap none # {}
     THEN Raise("ValueError") /\ UNCHANGED steps_per_loop
     ELSE IF "steps_per_loop" \in none /\ python = 3
     \* None > int is a TypeError on Python 3 (line 152)
     THEN Raise("TypeError") /\ UNCHANGED steps_per_loop
     ELSE IF Given("eval_input_fn")
             /\ ("eval_steps" \in none \/ "metric_fn" \in none)
     THEN Raise("ValueError") /\ UNCHANGED steps_per_loop
     ELSE IF Given("metric_fn") /\ ~metric_callable
     THEN Raise("ValueError") /\ UNCHANGED steps_per_loop
     ELSE /\ pc' = "build"
          /\ exc' = exc
          \* on Python 2 None > int is False and None is kept
          /\ steps_per_loop' =
               IF Given("steps_per_loop") /\ steps_per_loop > steps_per_epoch
               THEN steps_per_epoch ELSE steps_per_loop
  /\ UNCHANGED notCtl

\* lines 170-199: input iterator, model_fn(), optimizer check, init checkpoint
BuildModel ==
  /\ pc = "build"
  /\ model_built' = TRUE
  /\ \E has_optimizer \in BOOLEAN :
       IF ~has_optimizer
       THEN Raise("ValueError") /\ UNCHANGED restored
       ELSE /\ pc' = "restore"
            /\ exc' = exc
            /\ restored' = IF Given("init_checkpoint") THEN {"init"} ELSE {}
  /\ UNCHANGED <<ctlArgs, steps_per_loop, current_step, steps, i, j,
                 start_step, events>>
  /\ UNCHANGED notCtl

\* lines 270-280: restore the latest checkpoint of model_dir, if any
RestoreLatest ==
  /\ pc = "restore"
  /\ \E latest_checkpoint_file \in BOOLEAN :
       IF latest_checkpoint_file
       THEN /\ restored' = restored \cup {"latest"}
            /\ \E iterations \in 0..MaxRestoredStep :
                 /\ current_step' = iterations
                 /\ start_step' = iterations
       ELSE /\ restored' = restored
            /\ current_step' = 0
            /\ start_step' = 0
  /\ pc' = "loop"
  /\ UNCHANGED <<ctlArgs, steps_per_loop, exc, model_built, steps, i, j,
                 events>>
  /\ UNCHANGED notCtl

\* line 282: the while test
LoopTest ==
  /\ pc = "loop"
  /\ pc' = IF current_step < total_training_steps
           THEN "batch_begin" ELSE "final_save"
  /\ UNCHANGED <<ctlArgs, steps_per_loop, exc, model_built, restored,
                 current_step, steps, i, j, start_step, events>>
  /\ UNCHANGED notCtl

\* lines 285-293: metric reset, on_batch_begin callbacks, _steps_to_run and
\* the conversion of steps to a tensor
BatchBegin ==
  /\ pc = "batch_begin"
  /\ events' = events \o CallbackEvents("on_batch_begin", current_step,
                                        n_callbacks)
  /\ IF "steps_per_loop" \in none
     \* Python 2 only: _steps_to_run returns None (None <= 1) and
     \* tf.convert_to_tensor(None) raises ValueError
     THEN Raise("ValueError") /\ UNCHANGED <<steps, i>>
     ELSE /\ steps' = _steps_to_run(current_step, steps_per_epoch,
                                    steps_per_loop)
          /\ i' = 0
          /\ pc' = "train"
          /\ exc' = exc
  /\ UNCHANGED <<ctlArgs, steps_per_loop, model_built, restored,
                 current_step, j, start_step>>
  /\ UNCHANGED notCtl

\* lines 232-233 (216-230): one replicated step of train_step
TrainStep ==
  /\ pc = "train"
  /\ i < steps
  /\ events' = Append(events, Event("train", current_step + i, 0))
  /\ i' = i + 1
  /\ UNCHANGED <<ctlArgs, steps_per_loop, pc, exc, model_built, restored,
                 current_step, steps, j, start_step>>
  /\ UNCHANGED notCtl

\* lines 294-304: on_batch_end callbacks, current_step += steps, logging
BatchEnd ==
  /\ pc = "train"
  /\ i = steps
  /\ events' = events \o CallbackEvents("on_batch_end", current_step,
                                        n_callbacks)
  /\ current_step' = current_step + steps
  /\ pc' = "epoch_end"
  /\ UNCHANGED <<ctlArgs, steps_per_loop, exc, model_built, restored, steps,
                 i, j, start_step>>
  /\ UNCHANGED notCtl

\* lines 306-317: checkpoint at the end of an epoch, start of the evaluation
EpochEnd ==
  /\ pc = "epoch_end"
  /\ IF AtEpochEnd(current_step, steps_per_epoch)
     THEN /\ events' =
               IF SaveInsideLoop(current_step, total_training_steps)
               THEN Append(events, Event("save", current_step, 0))
               ELSE events
          /\ IF Given("eval_input_fn")
             THEN pc' = "eval" /\ j' = 0
             ELSE pc' = "loop" /\ j' = j
     ELSE /\ events' = events
          /\ pc' = "loop"
          /\ j' = j
  /\ UNCHANGED <<ctlArgs, steps_per_loop, exc, model_built, restored,
                 current_step, steps, i, start_step>>
  /\ UNCHANGED notCtl

\* lines 250-251 (236-246): one test_step of _run_evaluation
TestStep ==
  /\ pc \in {"eval", "final_eval"}
  /\ j < eval_steps
  /\ events' = Append(events, Event("test", current_step, 0))
  /\ j' = j + 1
  /\ UNCHANGED <<ctlArgs, steps_per_loop, pc, exc, model_built, restored,
                 current_step, steps, i, start_step>>
  /\ UNCHANGED notCtl

\* lines 252-253 and 318-319: the evaluation inside the loop is over
EvalDone ==
  /\ pc = "eval"
  /\ j = eval_steps
  /\ events' = Append(events, Event("eval", current_step, j))
  /\ pc' = "loop"
  /\ UNCHANGED <<ctlArgs, steps_per_loop, exc, model_built, restored,
                 current_step, steps, i, j, start_step>>
  /\ UNCHANGED notCtl

\* lines 321-327: the save after the loop, start of the final evaluation
FinalSave ==
  /\ pc = "final_save"
  /\ events' = Append(events, Event("save", current_step, 0))
  /\ IF Given("eval_input_fn")
     THEN pc' = "final_eval" /\ j' = 0
     ELSE pc' = "summary" /\ j' = j
  /\ UNCHANGED <<ctlArgs, steps_per_loop, exc, model_built, restored,
                 current_step, steps, i, start_step>>
  /\ UNCHANGED notCtl

\* lines 252-253: the final evaluation is over
FinalEvalDone ==
  /\ pc = "final_eval"
  /\ j = eval_steps
  /\ events' = Append(events, Event("eval", current_step, j))
  /\ pc' = "summary"
  /\ UNCHANGED <<ctlArgs, steps_per_loop, exc, model_built, restored,
                 current_step, steps, i, j, start_step>>
  /\ UNCHANGED notCtl

\* lines 329-343: training summary and return
Return ==
  /\ pc = "summary"
  /\ pc' = "done"
  /\ UNCHANGED <<ctlArgs, steps_per_loop, exc, model_built, restored,
                 current_step, steps, i, j, start_step, events>>
  /\ UNCHANGED notCtl

CtlNext ==
  \/ Validate
  \/ BuildModel
  \/ RestoreLatest
  \/ LoopTest
  \/ BatchBegin
  \/ TrainStep
  \/ BatchEnd
  \/ EpochEnd
  \/ TestStep
  \/ EvalDone
  \/ FinalSave
  \/ FinalEvalDone
  \/ Return

\* ------------------------------------------------------------ claims, loop
Positions(op) == {p \in DOMAIN events : events[p].op = op}

\* the epoch ends current_step has reached in this invocation, up to step k
EpochEndsUpTo(k) ==
  {s \in (start_step + 1)..k : s % steps_per_epoch = 0}

SavedBefore(s, p) ==
  \E q \in 1..(p - 1) : events[q] = Event("save", s, 0)

\* an evaluation at step s that ended before position p and ran exactly
\* eval_steps test steps
EvaluatedBefore(s, p) ==
  \E q \in 1..(p - 1) :
    /\ events[q] = Event("eval", s, eval_steps)
    /\ q > eval_steps
    /\ \A r \in (q - eval_steps)..(q - 1) : events[r] = Event("test", s, 0)
    /\ (q - eval_steps > 1 => events[q - eval_steps - 1].op # "test")

\* C1: at the end of each epoch the checkpoint ctl_step_<current_step> is
\* saved and, if eval_input_fn is given, an evaluation of exactly eval_steps
\* test steps is run, before any training step of the next epoch (and before
\* the function returns, for the last epoch).
C1_EpochEndSaveAndEval ==
  /\ \A p \in Positions("train") :
       \A s \in EpochEndsUpTo(events[p].step) :
         /\ SavedBefore(s, p)
         /\ (Given("eval_input_fn") => EvaluatedBefore(s, p))
  /\ pc = "done" =>
       \A s \in EpochEndsUpTo(current_step) :
         /\ SavedBefore(s, Len(events) + 1)
         /\ (Given("eval_input_fn") => EvaluatedBefore(s, Len(events) + 1))

C1_Witness ==
  /\ pc = "done"
  /\ start_step = 0
  /\ epochs = 2
  /\ steps_per_epoch = 2
  /\ Given("eval_input_fn")
  /\ eval_steps = 2
  /\ current_step = total_training_steps

\* C2: within one invocation no step value is saved twice, and the
\* checkpoint of the last step is written exactly once, by the save after
\* the loop (no training step or callback follows it).
C2_NoRepeatedSave ==
  /\ \A p, q \in Positions("save") :
       events[p].step = events[q].step => p = q
  /\ pc = "done" =>
       /\ Cardinality({p \in Positions("save") :
                         events[p].step = current_step}) = 1
       /\ \A p \in Positions("save") :
            events[p].step = current_step =>
              \A q \in (p + 1)..Len(events) : events[q].op \in {"test", "eval"}

C2_Witness ==
  /\ pc = "done"
  /\ start_step > 0
  /\ start_step < steps_per_epoch
  /\ epochs = 2
  /\ current_step = total_training_steps
  /\ Cardinality(Positions("save")) = 2

\* C3: a None among strategy, model_fn, loss_fn, model_dir, steps_per_loop,
\* steps_per_epoch (or a _sentinel that is not None) makes the function
\* raise ValueError before the model is built, a checkpoint is restored or
\* saved, or a training step runs.
C3_RequiredArgsValueError ==
  ((sentinel \/ none \cap {"strategy", "model_fn", "loss_fn", "model_dir",
                           "steps_per_loop", "steps_per_epoch"} # {})
   /\ pc # "start")
  => /\ pc = "raised"
     /\ exc = "ValueError"
     /\ ~model_built
     /\ restored = {}
     /\ events = <<>>

\* C4: every callback's on_batch_begin is invoked once before each training
\* step and its on_batch_end once after each training step.
C4_CallbacksEveryStep ==
  \A c \in 1..n_callbacks :
    /\ \A p \in Positions("train") :
         LET before == {q \in Positions("train") : q < p}
             lo     == IF before = {} THEN 0
                       ELSE CHOOSE q \in before : \A r \in before : r <= q
         IN Cardinality({q \in (lo + 1)..(p - 1) :
                           events[q].op = "on_batch_begin"
                           /\ events[q].cb = c}) = 1
    /\ \A p \in Positions("train") :
         LET after == {q \in Positions("train") : q > p}
             hi    == IF after = {} THEN Len(events) + 1
                      ELSE CHOOSE q \in after : \A r \in after : q <= r
         IN (after # {} \/ pc = "done") =>
              Cardinality({q \in (p + 1)..(hi - 1) :
                             events[q].op = "on_batch_end"
                             /\ events[q].cb = c}) = 1

\* =======================================================================
\*  run_experiment
\* =======================================================================
M_train           == <<"t", "r", "a", "i", "n">>
M_eval            == <<"e", "v", "a", "l">>
M_train_and_eval  == M_train \o <<"_", "a", "n", "d", "_">> \o M_eval
M_continuous_eval == <<"c", "o", "n", "t", "i", "n", "u", "o", "u", "s",
                       "_">> \o M_eval
M_training        == M_train \o <<"i", "n", "g">>
M_evaluate        == M_eval \o <<"u", "a", "t", "e">>
M_predict         == <<"p", "r", "e", "d", "i", "c", "t">>

Modes == {M_train, M_eval, M_train_and_eval, M_continuous_eval, M_training,
          M_evaluate, M_predict, <<>>}

\* Python's `sub in s` on strings (lines 61, 62, 77)
In(sub, str) ==
  \E k \in 0..(Len(str) - Len(sub)) :
    \A l \in 1..Len(sub) : str[k + l] = sub[l]

\* mutant of EntryPoint: the mode is matched by substring
EntryPointBySubstring(m) ==
  IF In(M_train, m) /\ ~In(M_eval, m) THEN "train"
  ELSE IF In(M_train, m) THEN "train_and_evaluate"
  ELSE IF In(M_continuous_eval, m) THEN "evaluate_continuously"
  ELSE IF In(M_eval, m) THEN "evaluate"
  ELSE "NotImplementedError"

\* lines 91-105: the controller method the mode selects
EntryPoint(m) ==
  IF m = M_train THEN "train"
  ELSE IF m = M_train_and_eval THEN "train_and_evaluate"
  ELSE IF m = M_eval THEN "evaluate"
  ELSE IF m = M_continuous_eval THEN "evaluate_continuously"
  ELSE "NotImplementedError"

\* the logs of Trainer.evaluate(steps): validation_loss is always reported;
\* its value stands for the number of eval steps the evaluation ran
EvalLogs(n) == {<<"validation_loss", n>>}

\* mutant of ReturnValue: the branches are swapped
ReturnValueSwapped(post_eval, logs) == IF post_eval THEN {} ELSE logs

\* lines 107-112
ReturnValue(post_eval, logs) == IF post_eval THEN logs ELSE {}

ExpInit ==
  /\ mode \in Modes
  /\ run_post_eval \in BOOLEAN
  /\ train_steps \in 0..MaxTrainSteps
  /\ validation_steps \in 1..MaxValidationSteps
  /\ validation_interval \in 1..MaxInterval
  /\ loop_steps \in 1..MaxInterval
  /\ x_pc = "create"
  /\ x_exc = ""
  /\ trainer = [train |-> FALSE, evaluate |-> FALSE]
  /\ controller = [trainer |-> FALSE, evaluator |-> FALSE]
  /\ global_step = 0
  /\ entry_calls = <<>>
  /\ trained = 0
  /\ evaluations = <<>>
  /\ post_evals = <<>>
  /\ target = 0
  /\ result = {}

\* lines 56-62: train_utils.create_trainer
CreateTrainer ==
  /\ x_pc = "create"
  /\ trainer' = [train |-> In(M_train, mode),
                 evaluate |-> In(M_eval, mode) \/ run_post_eval]
  /\ x_pc' = "controller"
  /\ UNCHANGED <<expArgs, x_exc, controller, global_step, entry_calls,
                 trained, evaluations, post_evals, target, result>>
  /\ UNCHANGED notExp

\* lines 64-87: checkpoint manager and orbit.Controller; the controller
\* restores the latest checkpoint of model_dir, which sets global_step
CreateController ==
  /\ x_pc = "controller"
  /\ controller' = [trainer |-> In(M_train, mode), evaluator |-> TRUE]
  /\ \E restored_step \in 0..MaxTrainSteps : global_step' = restored_step
  /\ x_pc' = "dispatch"
  /\ UNCHANGED <<expArgs, x_exc, trainer, entry_calls, trained, evaluations,
                 post_evals, target, result>>
  /\ UNCHANGED notExp

\* Controller.train_and_evaluate: the step the next train call trains to
NextTarget == global_step + Min(train_steps - global_step,
                                validation_interval)

\* lines 89-105: the dispatch on mode
Dispatch ==
  /\ x_pc = "dispatch"
  /\ LET e == EntryPoint(mode) IN
       IF e = "NotImplementedError"
       THEN /\ x_pc' = "raised"
            /\ x_exc' = e
            /\ UNCHANGED <<entry_calls, target>>
       ELSE /\ entry_calls' = Append(entry_calls, e)
            /\ x_exc' = x_exc
            /\ x_pc' = e
            /\ target' = IF e = "train" THEN train_steps ELSE target
  /\ UNCHANGED <<expArgs, trainer, controller, global_step, trained,
                 evaluations, post_evals, result>>
  /\ UNCHANGED notExp

\* Controller.train_and_evaluate (lines 94-97): the test of its while loop
\* and the choice of the step the next interval trains to
TrainAndEvaluateLoop ==
  /\ x_pc = "train_and_evaluate"
  /\ IF global_step < train_steps
     THEN target' = NextTarget /\ x_pc' = "interval_train"
     ELSE target' = target /\ x_pc' = "post_eval"
  /\ UNCHANGED <<expArgs, x_exc, trainer, controller, global_step,
                 entry_calls, trained, evaluations, post_evals, result>>
  /\ UNCHANGED notExp

\* Controller.train, called by run_experiment (line 92) or by
\* train_and_evaluate: one _train_n_steps call
ControllerTrainLoop ==
  /\ x_pc \in {"train", "interval_train"}
  /\ controller.trainer
  /\ global_step < target
  /\ LET num_steps == Min(target - global_step, loop_steps) IN
       /\ global_step' = global_step + num_steps
       /\ trained' = trained + num_steps
  /\ UNCHANGED <<expArgs, x_pc, x_exc, trainer, controller, entry_calls,
                 evaluations, post_evals, target, result>>
  /\ UNCHANGED notExp

\* Controller.train is over (line 92 returns)
ControllerTrainDone ==
  /\ x_pc = "train"
  /\ global_step >= target
  /\ x_pc' = "post_eval"
  /\ UNCHANGED <<expArgs, x_exc, trainer, controller, global_step,
                 entry_calls, trained, evaluations, post_evals, target,
                 result>>
  /\ UNCHANGED notExp

\* Controller.train_and_evaluate: the evaluation that ends a train interval
ControllerIntervalEval ==
  /\ x_pc = "interval_train"
  /\ global_step >= target
  /\ evaluations' = Append(evaluations, validation_steps)
  /\ x_pc' = "train_and_evaluate"
  /\ UNCHANGED <<expArgs, x_exc, trainer, controller, global_step,
                 entry_calls, trained, post_evals, target, result>>
  /\ UNCHANGED notExp

\* Controller.evaluate (line 99)
ControllerEvaluate ==
  /\ x_pc = "evaluate"
  /\ controller.evaluator
  /\ evaluations' = Append(evaluations, validation_steps)
  /\ x_pc' = "post_eval"
  /\ UNCHANGED <<expArgs, x_exc, trainer, controller, global_step,
                 entry_calls, trained, post_evals, target, result>>
  /\ UNCHANGED notExp

\* Controller.evaluate_continuously (lines 101-103): one new checkpoint is
\* restored and evaluated
ControllerEvaluateCheckpoint ==
  /\ x_pc = "evaluate_continuously"
  /\ Len(evaluations) < MaxCheckpoints
  /\ evaluations' = Append(evaluations, validation_steps)
  /\ \E restored_step \in 0..MaxTrainSteps : global_step' = restored_step
  /\ UNCHANGED <<expArgs, x_pc, x_exc, trainer, controller, entry_calls,
                 trained, post_evals, target, result>>
  /\ UNCHANGED notExp

\* Controller.evaluate_continuously: no new checkpoint before the timeout
ControllerEvaluateTimeout ==
  /\ x_pc = "evaluate_continuously"
  /\ x_pc' = "post_eval"
  /\ UNCHANGED <<expArgs, x_exc, trainer, controller, global_step,
                 entry_calls, trained, evaluations, post_evals, target,
                 result>>
  /\ UNCHANGED notExp

\* lines 107-112: the optional post-run evaluation and the return value
PostEval ==
  /\ x_pc = "post_eval"
  /\ post_evals' = IF run_post_eval
                   THEN Append(post_evals, validation_steps)
                   ELSE post_evals
  /\ result' = ReturnValue(run_post_eval, EvalLogs(validation_steps))
  /\ x_pc' = "returned"
  /\ UNCHANGED <<expArgs, x_exc, trainer, controller, global_step,
                 entry_calls, trained, evaluations, target>>
  /\ UNCHANGED notExp

ExpNext ==
  \/ CreateTrainer
  \/ CreateController
  \/ Dispatch
  \/ TrainAndEvaluateLoop
  \/ ControllerTrainLoop
  \/ ControllerTrainDone
  \/ ControllerIntervalEval
  \/ ControllerEvaluate
  \/ ControllerEvaluateCheckpoint
  \/ ControllerEvaluateTimeout
  \/ PostEval


\* ------------------------------------------------------ claims, experiment
ValidModes == {M_train, M_eval, M_train_and_eval, M_continuous_eval}

\* C5: run_experiment returns the non-empty logs of one post-run evaluation
\* of validation_steps steps when run_post_eval is True and the empty
\* mapping when it is False, in each of the four modes.
C5_PostEvalLogs ==
  x_pc = "returned" =>
    /\ mode \in ValidModes
    /\ run_post_eval =>
         /\ result = {<<"validation_loss", validation_steps>>}
         /\ result # {}
         /\ post_evals = <<validation_steps>>
    /\ ~run_post_eval =>
         /\ result = {}
         /\ post_evals = <<>>

C5_Witness ==
  /\ x_pc = "returned"
  /\ run_post_eval
  /\ mode = M_continuous_eval
  /\ validation_steps = 2
  /\ Len(evaluations) = 2

\* C6: exactly one controller entry point, chosen by mode, is invoked; any
\* other mode raises NotImplementedError with no training step, evaluation
\* step or post-eval run; the controller has a trainer only when the mode
\* contains 'train'.
C6_ModeDispatch ==
  /\ x_pc \in {"post_eval", "returned"} =>
       /\ Len(entry_calls) = 1
       /\ mode = M_train => entry_calls[1] = "train"
       /\ mode = M_train_and_eval => entry_calls[1] = "train_and_evaluate"
       /\ mode = M_eval => entry_calls[1] = "evaluate"
       /\ mode = M_continuous_eval => entry_calls[1] = "evaluate_continuously"
       /\ mode \in ValidModes
  /\ Len(entry_calls) <= 1
  /\ (mode \notin ValidModes /\ x_pc \notin {"create", "controller",
                                              "dispatch"}) =>
       /\ x_pc = "raised"
       /\ x_exc = "NotImplementedError"
       /\ entry_calls = <<>>
       /\ trained = 0
       /\ evaluations = <<>>
       /\ post_evals = <<>>
  /\ controller.trainer => In(M_train, mode)
  /\ (trained > 0 => In(M_train, mode))

C6_Witness ==
  /\ x_pc = "raised"
  /\ x_exc = "NotImplementedError"
  /\ mode = M_evaluate
  /\ run_post_eval
  /\ ~controller.trainer


\* =======================================================================
\*  CocoDetectionEvaluator, CocoMaskEvaluator
\* =======================================================================
\* the image ids of the calls
ImageIds == {"image1", "image2"}

\* class ids seen in the inputs; only those of `categories` are kept by the
\* coco_tools exports
Classes == {1, 2}

\* {cat['id'] for cat in categories}, lines 45 and 305
category_id_set == {1}

\* metric_names, lines 244-258, cut to its first NumMetricNames entries
all_metric_names ==
  <<"DetectionBoxes_Precision/mAP",
    "DetectionBoxes_Precision/mAP@.50IOU",
    "DetectionBoxes_Precision/mAP@.75IOU",
    "DetectionBoxes_Precision/mAP (large)",
    "DetectionBoxes_Precision/mAP (medium)",
    "DetectionBoxes_Precision/mAP (small)",
    "DetectionBoxes_Recall/AR@1",
    "DetectionBoxes_Recall/AR@10",
    "DetectionBoxes_Recall/AR@100",
    "DetectionBoxes_Recall/AR@100 (large)",
    "DetectionBoxes_Recall/AR@100 (medium)",
    "DetectionBoxes_Recall/AR@100 (small)",
    "DetectionBoxes_PerformanceByCategory/mAP/person">>

metric_names == SubSeq(all_metric_names, 1,
                       Min(NumMetricNames, Len(all_metric_names)))

\* Python dicts as sets of <<key, value>> pairs with unique keys
Keys(dict) == {kv[1] : kv \in dict}
Get(dict, k) == (CHOOSE kv \in dict : kv[1] = k)[2]
Put(dict, k, v) == {kv \in dict : kv[1] # k} \cup {<<k, v>>}

\* numpy mask arrays: dtype, shape [num_boxes, height, width] and the set
\* of element values that occur
NoMasks == [dtype |-> "uint8", shape |-> <<0, 0, 0>>, values |-> {}]

MaskArrays(n) ==
  {[dtype |-> t, shape |-> <<n, hw, hw>>, values |-> v] :
     t \in {"uint8", "float32"}, hw \in {1, 2},
     v \in IF n = 0 THEN {{}} ELSE {{0, 1}, {0, 1, 2}}}

ClassArrays == UNION {[1..n -> Classes] : n \in 0..MaxBoxes}

\* groundtruth_dict / detections_dict: the classes (one per box) and, for
\* the mask evaluator, the instance masks of the same boxes
Dicts(class) ==
  UNION {{[classes |-> c, masks |-> m] :
            m \in IF class = "CocoMaskEvaluator"
                  THEN MaskArrays(Len(c)) ELSE {NoMasks}} :
         c \in ClassArrays}

\* coco_tools.ExportSingleImageGroundtruthToCoco: one annotation per box
\* whose class is in category_id_set, with id next_annotation_id + index
ExportSingleImageGroundtruthToCoco(image_id, next_id, cats, classes) ==
  LET all == [k \in 1..Len(classes) |->
                [id |-> next_id + k - 1,
                 image_id |-> image_id,
                 category_id |-> classes[k]]]
  IN SelectSeq(all, LAMBDA a : a.category_id \in cats)

\* coco_tools.ExportSingleImageDetectionBoxesToCoco and
\* ExportSingleImageDetectionMasksToCoco: one entry per detection whose
\* class is in category_id_set
ExportSingleImageDetectionsToCoco(image_id, cats, detection_classes) ==
  LET all == [k \in 1..Len(detection_classes) |->
                [image_id |-> image_id,
                 category_id |-> detection_classes[k]]]
  IN SelectSeq(all, LAMBDA a : a.category_id \in cats)

Outcome(self, res) == [self |-> self, result |-> res]

\* CocoDetectionEvaluator.__init__, lines 27-48
Det_init ==
  [class |-> "CocoDetectionEvaluator",
   _image_ids |-> {},
   _groundtruth_list |-> <<>>,
   _detection_boxes_list |-> <<>>,
   _annotation_id |-> 1,
   _metrics |-> [call |-> 0,
                 metrics |-> [annotations |-> 0, images |-> 0,
                              detections |-> 0]]]

\* mutant of Det_clear: the image ids are kept
Det_clear_keeps_image_ids(self) ==
  [self EXCEPT !._groundtruth_list = <<>>,
               !._detection_boxes_list = <<>>]

\* CocoDetectionEvaluator.clear, lines 50-54
Det_clear(self) ==
  [self EXCEPT !._image_ids = {},
               !._groundtruth_list = <<>>,
               !._detection_boxes_list = <<>>]

\* mutant of Det_add_single_ground_truth_image_info: no duplicate check
Det_add_ground_truth_unchecked(self, image_id, groundtruth_dict) ==
  Outcome([self EXCEPT
             !._groundtruth_list =
                @ \o ExportSingleImageGroundtruthToCoco(
                       image_id, self._annotation_id, category_id_set,
                       groundtruth_dict.classes),
             !._annotation_id = @ + Len(groundtruth_dict.classes),
             !._image_ids = Put(@, image_id, FALSE)],
          "added")

\* CocoDetectionEvaluator.add_single_ground_truth_image_info, lines 56-91
Det_add_single_ground_truth_image_info(self, image_id, groundtruth_dict) ==
  IF image_id \in Keys(self._image_ids)
  THEN Outcome(self, "ignored")
  ELSE Outcome([self EXCEPT
                  !._groundtruth_list =
                     @ \o ExportSingleImageGroundtruthToCoco(
                            image_id, self._annotation_id, category_id_set,
                            groundtruth_dict.classes),
                  !._annotation_id = @ + Len(groundtruth_dict.classes),
                  !._image_ids = Put(@, image_id, FALSE)],
               "added")

\* mutant of Det_add_single_detected_image_info: detections of an image
\* without groundtruth are recorded
Det_add_detected_without_groundtruth(self, image_id, detections_dict) ==
  IF image_id \in Keys(self._image_ids) /\ Get(self._image_ids, image_id)
  THEN Outcome(self, "ignored")
  ELSE Outcome([self EXCEPT
                  !._detection_boxes_list =
                     @ \o ExportSingleImageDetectionsToCoco(
                            image_id, category_id_set,
                            detections_dict.classes),
                  !._image_ids = Put(@, image_id, TRUE)],
               "added")

\* CocoDetectionEvaluator.add_single_detected_image_info, lines 93-139
Det_add_single_detected_image_info(self, image_id, detections_dict) ==
  IF image_id \notin Keys(self._image_ids)
  THEN Outcome(self, "ValueError")
  ELSE IF Get(self._image_ids, image_id)
  THEN Outcome(self, "ignored")
  ELSE Outcome([self EXCEPT
                  !._detection_boxes_list =
                     @ \o ExportSingleImageDetectionsToCoco(
                            image_id, category_id_set,
                            detections_dict.classes),
                  !._image_ids = Put(@, image_id, TRUE)],
               "added")

\* CocoDetectionEvaluator.evaluate, lines 141-190: the COCO metrics are a
\* function of the annotations, the image ids and the detections; the
\* model keeps how many of each the COCO wrappers were given
Det_evaluate(self) ==
  [annotations |-> Len(self._groundtruth_list),
   images |-> Cardinality(Keys(self._image_ids)),
   detections |-> Len(self._detection_boxes_list)]

\* mutant of _check_mask_type_and_value: only the dtype is checked
_check_mask_type_only(masks) ==
  IF masks.dtype # "uint8" THEN "ValueError" ELSE ""

\* _check_mask_type_and_value, lines 279-286: "" when the masks pass
_check_mask_type_and_value(masks) ==
  IF masks.dtype # "uint8" THEN "ValueError"
  ELSE IF \E v \in masks.values : v # 0 /\ v # 1 THEN "ValueError"
  ELSE ""

\* CocoMaskEvaluator.__init__, lines 292-306
Mask_init ==
  [class |-> "CocoMaskEvaluator",
   _image_id_to_mask_shape_map |-> {},
   _image_ids_with_detections |-> {},
   _groundtruth_list |-> <<>>,
   _detection_masks_list |-> <<>>,
   _annotation_id |-> 1]

\* CocoMaskEvaluator.clear, lines 308-313
Mask_clear(self) ==
  [self EXCEPT !._image_id_to_mask_shape_map = {},
               !._image_ids_with_detections = {},
               !._groundtruth_list = <<>>,
               !._detection_masks_list = <<>>]

\* CocoMaskEvaluator.add_single_ground_truth_image_info, lines 315-358
Mask_add_single_ground_truth_image_info(self, image_id, groundtruth_dict) ==
  IF image_id \in Keys(self._image_id_to_mask_shape_map)
  THEN Outcome(self, "ignored")
  ELSE IF _check_mask_type_and_value(groundtruth_dict.masks) # ""
  THEN Outcome(self, _check_mask_type_and_value(groundtruth_dict.masks))
  ELSE Outcome([self EXCEPT
                  !._groundtruth_list =
                     @ \o ExportSingleImageGroundtruthToCoco(
                            image_id, self._annotation_id, category_id_set,
                            groundtruth_dict.classes),
                  !._annotation_id = @ + Len(groundtruth_dict.classes),
                  !._image_id_to_mask_shape_map =
                     Put(@, image_id, groundtruth_dict.masks.shape)],
               "added")

\* CocoMaskEvaluator.add_single_detected_image_info, lines 360-412
Mask_add_single_detected_image_info(self, image_id, detections_dict) ==
  IF image_id \notin Keys(self._image_id_to_mask_shape_map)
  THEN Outcome(self, "ValueError")
  ELSE IF image_id \in self._image_ids_with_detections
  THEN Outcome(self, "ignored")
  ELSE LET groundtruth_masks_shape ==
             Get(self._image_id_to_mask_shape_map, image_id)
           detection_masks == detections_dict.masks
       IN IF Tail(groundtruth_masks_shape) # Tail(detection_masks.shape)
          THEN Outcome(self, "ValueError")
          ELSE IF _check_mask_type_and_value(detection_masks) # ""
          THEN Outcome(self, _check_mask_type_and_value(detection_masks))
          ELSE Outcome([self EXCEPT
                          !._detection_masks_list =
                             @ \o ExportSingleImageDetectionsToCoco(
                                    image_id, category_id_set,
                                    detections_dict.classes),
                          !._image_ids_with_detections = @ \cup {image_id}],
                       "added")

\* dispatch on the class of the object
add_single_ground_truth_image_info(self, image_id, groundtruth_dict) ==
  IF self.class = "CocoDetectionEvaluator"
  THEN Det_add_single_ground_truth_image_info(self, image_id,
                                              groundtruth_dict)
  ELSE Mask_add_single_ground_truth_image_info(self, image_id,
                                               groundtruth_dict)

add_single_detected_image_info(self, image_id, detections_dict) ==
  IF self.class = "CocoDetectionEvaluator"
  THEN Det_add_single_detected_image_info(self, image_id, detections_dict)
  ELSE Mask_add_single_detected_image_info(self, image_id, detections_dict)

clear(self) ==
  IF self.class = "CocoDetectionEvaluator" THEN Det_clear(self)
  ELSE Mask_clear(self)

Call(op, res) == [op |-> op, result |-> res]

IdleSession == [active |-> FALSE, round |-> 0, fetch |-> {},
                first_ran |-> FALSE, values |-> {},
                inputs |-> Det_evaluate(Det_init)]

CocoInit ==
  /\ evaluator \in {Det_init, Mask_init}
  /\ session = IdleSession
  /\ n_evaluate = 0
  /\ last_call = Call("__init__", "")
  /\ gt_since_clear = {}
  /\ det_since_clear = {}

\* a call of add_single_ground_truth_image_info
AddGroundTruth ==
  /\ ~session.active
  /\ \E image_id \in ImageIds, groundtruth_dict \in Dicts(evaluator.class) :
       LET out == add_single_ground_truth_image_info(evaluator, image_id,
                                                     groundtruth_dict)
       IN /\ evaluator._annotation_id + Len(groundtruth_dict.classes) - 1
               <= MaxAnnotationId
          /\ evaluator' = out.self
          /\ last_call' = Call("add_single_ground_truth_image_info",
                               out.result)
          /\ gt_since_clear' = IF out.result = "ValueError"
                               THEN gt_since_clear
                               ELSE gt_since_clear \cup {image_id}
  /\ UNCHANGED <<session, n_evaluate, det_since_clear>>
  /\ UNCHANGED notCoco

\* a call of add_single_detected_image_info
AddDetected ==
  /\ ~session.active
  /\ \E image_id \in ImageIds, detections_dict \in Dicts(evaluator.class) :
       LET out == add_single_detected_image_info(evaluator, image_id,
                                                 detections_dict)
       IN /\ evaluator' = out.self
          /\ last_call' = Call("add_single_detected_image_info",
                               out.result)
          /\ det_since_clear' = IF out.result = "ValueError"
                                THEN det_since_clear
                                ELSE det_since_clear \cup {image_id}
  /\ UNCHANGED <<session, n_evaluate, gt_since_clear>>
  /\ UNCHANGED notCoco

\* a call of clear()
Clear ==
  /\ ~session.active
  /\ evaluator' = clear(evaluator)
  /\ last_call' = Call("clear", "")
  /\ gt_since_clear' = {}
  /\ det_since_clear' = {}
  /\ UNCHANGED <<session, n_evaluate>>
  /\ UNCHANGED notCoco

\* update_op, lines 221-236: groundtruth, then detections, of one image
UpdateOp ==
  /\ ~session.active
  /\ evaluator.class = "CocoDetectionEvaluator"
  /\ \E image_id \in ImageIds, groundtruth_dict \in Dicts(evaluator.class),
        detections_dict \in Dicts(evaluator.class) :
       LET gt  == add_single_ground_truth_image_info(evaluator, image_id,
                                                     groundtruth_dict)
           det == add_single_detected_image_info(gt.self, image_id,
                                                 detections_dict)
       IN /\ evaluator._annotation_id + Len(groundtruth_dict.classes) - 1
               <= MaxAnnotationId
          /\ evaluator' = det.self
          /\ last_call' = Call("update_op", det.result)
          /\ gt_since_clear' = gt_since_clear \cup {image_id}
          /\ det_since_clear' = det_since_clear \cup {image_id}
  /\ UNCHANGED <<session, n_evaluate>>
  /\ UNCHANGED notCoco

\* mutant of ValueOpReady: no control dependency on first_value_op
ValueOpReadyAlways(first_ran) == TRUE

\* line 272: the other value ops are created under
\* tf.control_dependencies([first_value_op])
ValueOpReady(first_ran) == first_ran

\* a session.run that fetches some of the value ops of eval_metric_ops
StartValueRun ==
  /\ ~session.active
  /\ evaluator.class = "CocoDetectionEvaluator"
  /\ session.round < MaxRounds
  /\ \E fetch \in SUBSET {metric_names[k] : k \in DOMAIN metric_names} :
       /\ fetch # {}
       /\ session' = [active |-> TRUE, round |-> session.round + 1,
                      fetch |-> fetch, first_ran |-> FALSE, values |-> {},
                      inputs |-> Det_evaluate(evaluator)]
  /\ UNCHANGED <<evaluator, n_evaluate, last_call, gt_since_clear,
                 det_since_clear>>
  /\ UNCHANGED notCoco

\* first_value_func, lines 260-263; it runs once in every session.run of a
\* value op, fetched itself or as the control dependency of the others
FirstValueFunc ==
  /\ session.active
  /\ ~session.first_ran
  /\ LET metrics == [call |-> n_evaluate + 1,
                     metrics |-> Det_evaluate(evaluator)]
     IN /\ evaluator' = clear([evaluator EXCEPT !._metrics = metrics])
        /\ session' =
             [session EXCEPT
                !.first_ran = TRUE,
                !.values = IF metric_names[1] \in session.fetch
                           THEN @ \cup {<<metric_names[1], metrics>>}
                           ELSE @]
  /\ n_evaluate' = n_evaluate + 1
  /\ last_call' = Call("first_value_func", "")
  /\ gt_since_clear' = {}
  /\ det_since_clear' = {}
  /\ UNCHANGED notCoco

\* value_func of another metric name, lines 265-268 and 272-275
ValueFunc ==
  /\ session.active
  /\ ValueOpReady(session.first_ran)
  /\ \E k \in 2..Len(metric_names) :
       /\ metric_names[k] \in session.fetch
       /\ metric_names[k] \notin {v[1] : v \in session.values}
       /\ session' = [session EXCEPT
                        !.values = @ \cup {<<metric_names[k],
                                             evaluator._metrics>>}]
  /\ UNCHANGED <<evaluator, n_evaluate, last_call, gt_since_clear,
                 det_since_clear>>
  /\ UNCHANGED notCoco

\* the session.run returns once every fetched value op and first_value_op
\* have run
EndValueRun ==
  /\ session.active
  /\ session.first_ran
  /\ session.fetch = {v[1] : v \in session.values}
  /\ session' = [IdleSession EXCEPT !.round = session.round]
  /\ UNCHANGED <<evaluator, n_evaluate, last_call, gt_since_clear,
                 det_since_clear>>
  /\ UNCHANGED notCoco

CocoNext ==
  \/ AddGroundTruth
  \/ AddDetected
  \/ Clear
  \/ UpdateOp
  \/ StartValueRun
  \/ FirstValueFunc
  \/ ValueFunc
  \/ EndValueRun


\* ------------------------------------------------------- claims, evaluators
\* the evaluator holds no image ids, no groundtruth and no detections
HoldsNothing(self) ==
  /\ self._groundtruth_list = <<>>
  /\ IF self.class = "CocoDetectionEvaluator"
     THEN /\ self._image_ids = {}
          /\ self._detection_boxes_list = <<>>
     ELSE /\ self._image_id_to_mask_shape_map = {}
          /\ self._image_ids_with_detections = {}
          /\ self._detection_masks_list = <<>>

\* masks the mask evaluator accepts: uint8 with values 0 and 1 only
BinaryMasks(masks) == masks.dtype = "uint8" /\ masks.values \subseteq {0, 1}

DetectionsOf(self) ==
  IF self.class = "CocoDetectionEvaluator"
  THEN self._detection_boxes_list ELSE self._detection_masks_list

\* C7: add_single_detected_image_info raises ValueError for every image id
\* that got no groundtruth since construction or the last clear(), and
\* leaves the evaluator as it was.
C7_DetectionWithoutGroundtruth ==
  \A image_id \in ImageIds :
    image_id \notin gt_since_clear =>
      \A detections_dict \in Dicts(evaluator.class) :
        add_single_detected_image_info(evaluator, image_id, detections_dict)
          = [self |-> evaluator, result |-> "ValueError"]

C7_Witness ==
  /\ last_call = [op |-> "add_single_detected_image_info",
                  result |-> "ValueError"]
  /\ gt_since_clear = {}
  /\ evaluator._annotation_id > 1

\* C8: a second add_single_ground_truth_image_info or a second
\* add_single_detected_image_info for an image id is ignored and leaves the
\* evaluator as it was; so no image id has more groundtruth or detection
\* entries than one call exports, and annotation ids are never reused.
C8_SecondAddIgnored ==
  /\ \A image_id \in ImageIds, dict \in Dicts(evaluator.class) :
       /\ image_id \in gt_since_clear =>
            add_single_ground_truth_image_info(evaluator, image_id, dict)
              = [self |-> evaluator, result |-> "ignored"]
       /\ image_id \in det_since_clear =>
            add_single_detected_image_info(evaluator, image_id, dict)
              = [self |-> evaluator, result |-> "ignored"]
  /\ \A image_id \in ImageIds :
       /\ Cardinality({k \in DOMAIN evaluator._groundtruth_list :
            evaluator._groundtruth_list[k].image_id = image_id}) <= MaxBoxes
       /\ Cardinality({k \in DOMAIN DetectionsOf(evaluator) :
            DetectionsOf(evaluator)[k].image_id = image_id}) <= MaxBoxes
  /\ \A k, l \in DOMAIN evaluator._groundtruth_list :
       evaluator._groundtruth_list[k].id = evaluator._groundtruth_list[l].id
         => k = l

C8_Witness ==
  /\ last_call = [op |-> "add_single_detected_image_info",
                  result |-> "ignored"]
  /\ Len(DetectionsOf(evaluator)) = 1
  /\ Len(evaluator._groundtruth_list) = 2

\* C9: in a session.run of value ops, every value returned was computed by
\* the evaluate() call of that run, from the groundtruth and detections the
\* update ops had added, and once first_value_func has run the evaluator
\* holds none of them.
C9_ValueOpsReadThisRound ==
  /\ session.values # {} => session.first_ran
  /\ \A v \in session.values :
       /\ v[2].call = session.round
       /\ v[2].call = n_evaluate
       /\ v[2].metrics = session.inputs
  /\ (session.active /\ session.first_ran) =>
       /\ HoldsNothing(evaluator)
       /\ evaluator._metrics.call = session.round

C9_Witness ==
  /\ session.active
  /\ session.round = 2
  /\ metric_names[1] \notin session.fetch
  /\ Cardinality(session.values) = 2
  /\ session.inputs.detections > 0

\* C10: clear() leaves no image ids, no groundtruth and no detections, and
\* after it every image id is accepted as new groundtruth and then as a new
\* detection, whatever was added before.
C10_ClearResets ==
  /\ last_call.op = "clear" => HoldsNothing(evaluator)
  /\ LET cleared == clear(evaluator) IN
       /\ HoldsNothing(cleared)
       /\ \A image_id \in ImageIds, gt_dict \in Dicts(evaluator.class) :
            BinaryMasks(gt_dict.masks) =>
              LET gt == add_single_ground_truth_image_info(cleared, image_id,
                                                           gt_dict)
              IN /\ gt.result = "added"
                 /\ \A det_dict \in Dicts(evaluator.class) :
                      (/\ BinaryMasks(det_dict.masks)
                       /\ Tail(det_dict.masks.shape)
                            = Tail(gt_dict.masks.shape)) =>
                        add_single_detected_image_info(
                          gt.self, image_id, det_dict).result = "added"

C10_Witness ==
  /\ last_call.op = "clear"
  /\ evaluator._annotation_id = 3
  /\ evaluator.class = "CocoMaskEvaluator"


\* the detection masks have another height or width than the groundtruth
\* masks recorded for the image
OtherSpatialShape(self, image_id, masks) ==
  /\ image_id \in Keys(self._image_id_to_mask_shape_map)
  /\ Tail(Get(self._image_id_to_mask_shape_map, image_id))
       # Tail(masks.shape)

Max(a, b) == IF a >= b THEN a ELSE b

MaxOf(shape) == IF shape = <<>> THEN 1
                ELSE CHOOSE m \in {shape[d] : d \in 1..Len(shape)} :
                       \A d \in 1..Len(shape) : shape[d] <= m

Indices(shape) ==
  {idx \in [1..Len(shape) -> 1..MaxOf(shape)] :
     \A d \in 1..Len(shape) : idx[d] <= shape[d]}

Rank(t) == Len(t.shape)

Front(seq) == SubSeq(seq, 1, Len(seq) - 1)

Scalar(v) == [shape |-> <<>>, at |-> [idx \in Indices(<<>>) |-> v]]

\* the boxes the inputs are built from: <<y_min, x_min, y_max, x_max>>
BoxSet == {<<0, 0, 1, 1>>, <<0, 0, 2, 2>>, <<0, 0, 1, 2>>}

BoxLists == UNION {[1..n -> BoxSet] : n \in 1..MaxNumBoxes}

\* a tensor of shape [4], [N, 4] or [B, N, 4]
FromBox(box) ==
  [shape |-> <<4>>, at |-> [idx \in Indices(<<4>>) |-> box[idx[1]]]]

FromBoxes(boxes) ==
  LET shape == <<Len(boxes), 4>>
  IN  [shape |-> shape,
       at |-> [idx \in Indices(shape) |-> boxes[idx[1]][idx[2]]]]

FromBatches(batches) ==
  LET shape == <<Len(batches), Len(batches[1]), 4>>
  IN  [shape |-> shape,
       at |-> [idx \in Indices(shape) |-> batches[idx[1]][idx[2]][idx[3]]]]

Batched(b) ==
  {FromBatches(bl) :
     bl \in UNION {[1..b -> [1..n -> BoxSet]] : n \in 1..MaxNumBoxes}}

\* the tensors of batch size b; b = 0 stands for no batch dimension
InputTensors(b) ==
  IF b = 0
  THEN {FromBox(box) : box \in BoxSet} \cup {FromBoxes(l) : l \in BoxLists}
  ELSE Batched(b)

\* tf.split(value, num_or_size_splits=4, axis=-1)[k - 1]
Split(value, k) ==
  LET shape == Front(value.shape) \o <<1>>
  IN  [shape |-> shape,
       at |-> [idx \in Indices(shape) |->
                 value.at[[idx EXCEPT ![Len(idx)] = k]]]]

\* tf.transpose(t, perm), perm counted from 1
Transpose(t, perm) ==
  LET shape == [d \in 1..Rank(t) |-> t.shape[perm[d]]]
  IN  [shape |-> shape,
       at |-> [idx \in Indices(shape) |->
                 t.at[[e \in 1..Rank(t) |->
                        idx[CHOOSE d \in 1..Rank(t) : perm[d] = e]]]]]

\* tf.squeeze(t, axis=-1)
Squeeze(t) ==
  LET shape == Front(t.shape)
  IN  [shape |-> shape,
       at |-> [idx \in Indices(shape) |-> t.at[idx \o <<1>>]]]

\* tf.expand_dims(t, axis), axis counted as in Python (0, 1 or -1)
ExpandDims(t, axis) ==
  LET p == IF axis < 0 THEN Rank(t) + 2 + axis ELSE axis + 1
      shape == SubSeq(t.shape, 1, p - 1) \o <<1>>
                 \o SubSeq(t.shape, p, Rank(t))
  IN  [shape |-> shape,
       at |-> [idx \in Indices(shape) |->
                 t.at[SubSeq(idx, 1, p - 1)
                        \o SubSeq(idx, p + 1, Len(idx))]]]

\* broadcasting of the elementwise operations: shapes are aligned on the
\* right and a dimension of 1 is repeated
DimAt(shape, r, d) ==
  IF d <= r - Len(shape) THEN 1 ELSE shape[d - (r - Len(shape))]

Pick(t, r, idx) ==
  t.at[[d \in 1..Rank(t) |->
          IF t.shape[d] = 1 THEN 1 ELSE idx[d + (r - Rank(t))]]]

Elementwise(op(_, _), a, b) ==
  LET r == Max(Rank(a), Rank(b))
      shape == [d \in 1..r |->
                  Max(DimAt(a.shape, r, d), DimAt(b.shape, r, d))]
  IN  [shape |-> shape,
       at |-> [idx \in Indices(shape) |->
                 op(Pick(a, r, idx), Pick(b, r, idx))]]

tf_minimum(a, b) == Elementwise(LAMBDA x, y : Min(x, y), a, b)

tf_maximum(a, b) == Elementwise(LAMBDA x, y : Max(x, y), a, b)

tf_subtract(a, b) == Elementwise(LAMBDA x, y : x - y, a, b)

tf_add(a, b) == Elementwise(LAMBDA x, y : x + y, a, b)

tf_multiply(a, b) == Elementwise(LAMBDA x, y : x * y, a, b)

\* area, lines 20-35
area(box) ==
  LET y_min == Split(box, 1)
      x_min == Split(box, 2)
      y_max == Split(box, 3)
      x_max == Split(box, 4)
  IN  Squeeze(tf_multiply(tf_subtract(y_max, y_min),
                          tf_subtract(x_max, x_min)))

\* line 60: perm = [1, 0] if boxes_rank == 2 else [0, 2, 1]
intersection_perm(boxes_rank) ==
  IF boxes_rank = 2 THEN <<2, 1>> ELSE <<1, 3, 2>>

\* intersection, lines 38-72
intersection(gt_boxes, boxes) ==
  LET y_min1 == Split(gt_boxes, 1)
      x_min1 == Split(gt_boxes, 2)
      y_max1 == Split(gt_boxes, 3)
      x_max1 == Split(gt_boxes, 4)
      y_min2 == Split(boxes, 1)
      x_min2 == Split(boxes, 2)
      y_max2 == Split(boxes, 3)
      x_max2 == Split(boxes, 4)
      perm == intersection_perm(Rank(boxes))
      y_min_max == tf_minimum(y_max1, Transpose(y_max2, perm))
      y_max_min == tf_maximum(y_min1, Transpose(y_min2, perm))
      x_min_max == tf_minimum(x_max1, Transpose(x_max2, perm))
      x_max_min == tf_maximum(x_min1, Transpose(x_min2, perm))
      zeros_t == Scalar(0)
      intersect_heights ==
        tf_maximum(zeros_t, tf_subtract(y_min_max, y_max_min))
      intersect_widths ==
        tf_maximum(zeros_t, tf_subtract(x_min_max, x_max_min))
  IN  tf_multiply(intersect_heights, intersect_widths)

\* lines 95-97: tf.where(tf.equal(intersections, 0.0), zeros, truediv)
iou_where(inter, union) ==
  Elementwise(LAMBDA x, y : IF x = 0 THEN <<0, 1>> ELSE <<x, y>>,
              inter, union)

IouInit ==
  /\ \E b \in 0..MaxBatch, c \in 0..MaxBatch :
       \* two batched arguments have the same batch size
       /\ (b = 0 \/ c = 0 \/ b = c)
       /\ groundtruth_boxes \in InputTensors(b)
       /\ anchors \in InputTensors(c)
  /\ iou_pc = "call"
  /\ iou_exc = ""
  /\ intersections = Scalar(0)
  /\ gt_boxes_areas = Scalar(0)
  /\ boxes_areas = Scalar(0)
  /\ unions = Scalar(0)
  /\ iou_result = Scalar(0)

\* __call__, lines 127-141: the rank checks
IouCall ==
  /\ iou_pc = "call"
  /\ LET groundtruth_rank == Rank(groundtruth_boxes)
         anchor_rank == Rank(anchors)
     IN  IF \/ groundtruth_rank < 2 \/ groundtruth_rank > 3
            \/ anchor_rank < 2 \/ anchor_rank > 3
            \/ groundtruth_rank < anchor_rank
         THEN iou_exc' = "ValueError" /\ iou_pc' = "raised"
         ELSE iou_exc' = iou_exc /\ iou_pc' = "intersection"
  /\ UNCHANGED <<groundtruth_boxes, anchors, intersections, gt_boxes_areas,
                 boxes_areas, unions, iou_result>>
  /\ UNCHANGED notIou

\* iou, line 86
IouIntersection ==
  /\ iou_pc = "intersection"
  /\ intersections' = intersection(groundtruth_boxes, anchors)
  /\ iou_pc' = "area"
  /\ UNCHANGED <<groundtruth_boxes, anchors, iou_exc, gt_boxes_areas,
                 boxes_areas, unions, iou_result>>
  /\ UNCHANGED notIou

\* iou, lines 87-92
IouArea ==
  /\ iou_pc = "area"
  /\ LET areas == area(anchors)
         boxes_rank == Rank(areas)
         boxes_axis == IF boxes_rank = 2 THEN 1 ELSE 0
     IN  /\ gt_boxes_areas' = ExpandDims(area(groundtruth_boxes), -1)
         /\ boxes_areas' = ExpandDims(areas, boxes_axis)
  /\ iou_pc' = "unions"
  /\ UNCHANGED <<groundtruth_boxes, anchors, iou_exc, intersections, unions,
                 iou_result>>
  /\ UNCHANGED notIou

\* iou, lines 93-94
IouUnions ==
  /\ iou_pc = "unions"
  /\ unions' = tf_subtract(tf_add(gt_boxes_areas, boxes_areas),
                           intersections)
  /\ iou_pc' = "where"
  /\ UNCHANGED <<groundtruth_boxes, anchors, iou_exc, intersections,
                 gt_boxes_areas, boxes_areas, iou_result>>
  /\ UNCHANGED notIou

\* iou, lines 95-97, and the return at line 141
IouReturn ==
  /\ iou_pc = "where"
  /\ iou_result' = iou_where(intersections, unions)
  /\ iou_pc' = "done"
  /\ UNCHANGED <<groundtruth_boxes, anchors, iou_exc, intersections,
                 gt_boxes_areas, boxes_areas, unions>>
  /\ UNCHANGED notIou

IouNext ==
  \/ IouCall
  \/ IouIntersection
  \/ IouArea
  \/ IouUnions
  \/ IouReturn

\* ----------------------------------------------------------------- claims
\* the box at position n of a tensor of shape [N, 4], or at position n of
\* batch b of a tensor of shape [B, N, 4]
BoxAt(t, b, n) ==
  [k \in 1..4 |-> IF Rank(t) = 2 THEN t.at[<<n, k>>] ELSE t.at[<<b, n, k>>]]

NumBoxesOf(t) == t.shape[Rank(t) - 1]

\* intersection over union of two boxes
BoxIoU(p, q) ==
  LET h == Max(0, Min(p[3], q[3]) - Max(p[1], q[1]))
      w == Max(0, Min(p[4], q[4]) - Max(p[2], q[2]))
      inter == h * w
      union == (p[3] - p[1]) * (p[4] - p[2])
                 + (q[3] - q[1]) * (q[4] - q[2]) - inter
  IN  IF inter = 0 THEN <<0, 1>> ELSE <<inter, union>>

\* C12: the tensor returned for N groundtruth boxes and M anchors has shape
\* [M, N] (or [B, M, N]) and its entry [i, j] is the IoU of anchor i with
\* groundtruth box j.
C12_AnchorPerRow ==
  iou_pc = "done" =>
    LET N == NumBoxesOf(groundtruth_boxes)
        M == NumBoxesOf(anchors)
    IN  IF Rank(groundtruth_boxes) = 2
        THEN /\ iou_result.shape = <<M, N>>
             /\ \A a \in 1..M, g \in 1..N :
                  iou_result.at[<<a, g>>]
                    = BoxIoU(BoxAt(anchors, 1, a),
                             BoxAt(groundtruth_boxes, 1, g))
        ELSE /\ iou_result.shape = <<groundtruth_boxes.shape[1], M, N>>
             /\ \A b \in 1..groundtruth_boxes.shape[1], a \in 1..M,
                   g \in 1..N :
                  iou_result.at[<<b, a, g>>]
                    = BoxIoU(BoxAt(anchors, b, a),
                             BoxAt(groundtruth_boxes, b, g))

\* what the code returns: shape [N, M] (or [B, N, M]), one groundtruth box
\* per row and one anchor per column
Iou_GroundtruthPerRow ==
  iou_pc = "done" =>
    LET N == NumBoxesOf(groundtruth_boxes)
        M == NumBoxesOf(anchors)
    IN  IF Rank(groundtruth_boxes) = 2
        THEN /\ iou_result.shape = <<N, M>>
             /\ \A g \in 1..N, a \in 1..M :
                  iou_result.at[<<g, a>>]
                    = BoxIoU(BoxAt(groundtruth_boxes, 1, g),
                             BoxAt(anchors, 1, a))
        ELSE /\ iou_result.shape = <<groundtruth_boxes.shape[1], N, M>>
             /\ \A b \in 1..groundtruth_boxes.shape[1], g \in 1..N,
                   a \in 1..M :
                  iou_result.at[<<b, g, a>>]
                    = BoxIoU(BoxAt(groundtruth_boxes, b, g),
                             BoxAt(anchors, b, a))

\* a call with two groundtruth boxes and one anchor has returned
Iou_Witness ==
  /\ iou_pc = "done"
  /\ NumBoxesOf(groundtruth_boxes) = 2
  /\ NumBoxesOf(anchors) = 1

\* =======================================================================
\*  DELG extract_features
\* =======================================================================
_DELG_GLOBAL_EXTENSION == ".delg_global"

_DELG_LOCAL_EXTENSION == ".delg_local"

ImageNames == {"all_souls_000013", "oxford_002985"}

\* os.path.join(FLAGS.output_features_dir, image_name + extension)
OutputFilename(image_name, extension) == <<image_name, extension>>

AllOutputFiles ==
  {OutputFilename(n, e) :
     n \in ImageNames, e \in {_DELG_GLOBAL_EXTENSION, _DELG_LOCAL_EXTENSION}}

num_images == Len(image_list)

\* image_list[i], with i counted from 0 as in main
image_name == image_list[image_index + 1]

output_global_feature_filename ==
  OutputFilename(image_name, _DELG_GLOBAL_EXTENSION)

output_local_feature_filename ==
  OutputFilename(image_name, _DELG_LOCAL_EXTENSION)

\* tf.io.gfile.exists
Exists(filename) == filename \in output_files

\* mutant of FeaturesExist: one of the two files is enough
FeaturesExistEither ==
  \/ Exists(output_global_feature_filename)
  \/ Exists(output_local_feature_filename)

\* lines 140-142: the test that skips an image
FeaturesExist ==
  /\ Exists(output_global_feature_filename)
  /\ Exists(output_local_feature_filename)

LogEntry(op) ==
  [run |-> runs, i |-> image_index, op |-> op,
   had_global |-> Exists(output_global_feature_filename),
   had_local |-> Exists(output_local_feature_filename)]

DelgInit ==
  /\ image_list \in UNION {[1..n -> ImageNames] : n \in 0..MaxImages}
  /\ output_files \in SUBSET AllOutputFiles
  /\ delg_pc = "start"
  /\ image_index = 0
  /\ runs = 0
  /\ completed = {}
  /\ delg_log = {}

\* main, lines 91-122: the program is started, for the first time or again
DelgMain ==
  /\ delg_pc \in {"start", "done", "aborted"}
  /\ runs < MaxRuns
  /\ runs' = runs + 1
  /\ image_index' = 0
  /\ delg_pc' = "loop"
  /\ UNCHANGED <<image_list, output_files, completed, delg_log>>
  /\ UNCHANGED notDelg

\* lines 123-144: both files exist, the image is skipped
DelgSkip ==
  /\ delg_pc = "loop"
  /\ image_index < num_images
  /\ FeaturesExist
  /\ delg_log' = delg_log \cup {LogEntry("skip")}
  /\ image_index' = image_index + 1
  /\ UNCHANGED <<image_list, output_files, delg_pc, runs, completed>>
  /\ UNCHANGED notDelg

\* lines 123-164: the image is loaded and its features are extracted
DelgExtract ==
  /\ delg_pc = "loop"
  /\ image_index < num_images
  /\ ~FeaturesExist
  /\ delg_log' = delg_log \cup {LogEntry("extract")}
  /\ delg_pc' = "write_global"
  /\ UNCHANGED <<image_list, output_files, image_index, runs, completed>>
  /\ UNCHANGED notDelg

\* line 166: datum_io.WriteToFile
DelgWriteGlobal ==
  /\ delg_pc = "write_global"
  /\ output_files' = output_files \cup {output_global_feature_filename}
  /\ delg_log' = delg_log \cup {LogEntry("write_global")}
  /\ delg_pc' = "write_local"
  /\ UNCHANGED <<image_list, image_index, runs, completed>>
  /\ UNCHANGED notDelg

\* lines 167-168: feature_io.WriteToFile, then the next image
DelgWriteLocal ==
  /\ delg_pc = "write_local"
  /\ output_files' = output_files \cup {output_local_feature_filename}
  /\ delg_log' = delg_log \cup {LogEntry("write_local")}
  /\ image_index' = image_index + 1
  /\ delg_pc' = "loop"
  /\ UNCHANGED <<image_list, runs, completed>>
  /\ UNCHANGED notDelg

\* an exception of _PilLoader, the extractor or a write ends the run
DelgAbort ==
  /\ \/ delg_pc = "loop" /\ image_index < num_images /\ ~FeaturesExist
     \/ delg_pc \in {"write_global", "write_local"}
  /\ delg_pc' = "aborted"
  /\ UNCHANGED <<image_list, output_files, image_index, runs, completed,
                 delg_log>>
  /\ UNCHANGED notDelg

\* line 123: the loop ends and main returns
DelgExit ==
  /\ delg_pc = "loop"
  /\ image_index = num_images
  /\ completed' = completed \cup {runs}
  /\ delg_pc' = "done"
  /\ UNCHANGED <<image_list, output_files, image_index, runs, delg_log>>
  /\ UNCHANGED notDelg

DelgNext ==
  \/ DelgMain
  \/ DelgSkip
  \/ DelgExtract
  \/ DelgWriteGlobal
  \/ DelgWriteLocal
  \/ DelgAbort
  \/ DelgExit

\* ----------------------------------------------------------------- claims
Decisions == {e \in delg_log : e.op \in {"skip", "extract"}}

\* C13: an image is skipped, with no extraction and no file write, exactly
\* when both its .delg_global and its .delg_local file exist, and is
\* extracted otherwise; a run after a complete run extracts and writes
\* nothing.
C13_SkipIffBothExist ==
  /\ \A e \in Decisions :
       e.op = "skip" <=> (e.had_global /\ e.had_local)
  /\ \A e \in delg_log :
       e.op = "skip" =>
         \A w \in delg_log : (w.run = e.run /\ w.i = e.i) => w.op = "skip"
  /\ \A k \in 0..(image_index - 1) :
       \E e \in Decisions : e.run = runs /\ e.i = k
  /\ \A r \in completed :
       \A e \in delg_log : e.run = r + 1 => e.op = "skip"

\* a run extracted an image that had only one of its two files, completed,
\* and the next run skipped every image
C13_Witness ==
  /\ \E e \in delg_log :
       e.op = "extract" /\ e.had_global # e.had_local /\ e.run + 1 = runs
  /\ runs - 1 \in completed
  /\ delg_pc = "done"
  /\ image_list # <<>>

\* C14: with steps_per_epoch >= 1 and steps_per_loop >= 1 given, every
\* train_step call runs at least 1 and at most min(steps_per_loop,
\* steps_per_epoch) steps, and no multiple of steps_per_epoch lies strictly
\* inside the steps it runs, whatever step the loop started from.
C14_BatchesStayInsideEpoch ==
  (pc = "train" /\ "steps_per_loop" \notin none) =>
    /\ 1 <= steps
    /\ steps <= Min(steps_per_loop, steps_per_epoch)
    /\ \A step \in (current_step + 1)..(current_step + steps - 1) :
         step % steps_per_epoch # 0

\* a loop restored in the middle of an epoch runs fewer than steps_per_loop
\* steps to stop on the epoch boundary
C14_Witness ==
  /\ pc = "train"
  /\ "steps_per_loop" \notin none
  /\ start_step % steps_per_epoch # 0
  /\ current_step = start_step
  /\ steps > 1
  /\ steps < steps_per_loop
  /\ (current_step + steps) % steps_per_epoch = 0

\* =======================================================================
\*  specifications
\* =======================================================================
vars == <<ctlVars, expVars, cocoVars, iouVars, delgVars>>

\* the training loop before any call
CtlIdle ==
  /\ none = {}
  /\ sentinel = FALSE
  /\ steps_per_epoch = 1
  /\ steps_per_loop = 1
  /\ epochs = 0
  /\ eval_steps = 0
  /\ metric_callable = TRUE
  /\ n_callbacks = 0
  /\ python = 3
  /\ pc = "start"
  /\ exc = ""
  /\ model_built = FALSE
  /\ restored = {}
  /\ current_step = 0
  /\ steps = 0
  /\ i = 0
  /\ j = 0
  /\ start_step = 0
  /\ events = <<>>

\* run_experiment before any call
ExpIdle ==
  /\ mode = <<>>
  /\ run_post_eval = FALSE
  /\ train_steps = 0
  /\ validation_steps = 1
  /\ validation_interval = 1
  /\ loop_steps = 1
  /\ x_pc = "create"
  /\ x_exc = ""
  /\ trainer = [train |-> FALSE, evaluate |-> FALSE]
  /\ controller = [trainer |-> FALSE, evaluator |-> FALSE]
  /\ global_step = 0
  /\ entry_calls = <<>>
  /\ trained = 0
  /\ evaluations = <<>>
  /\ post_evals = <<>>
  /\ target = 0
  /\ result = {}

\* an evaluator before any call
CocoIdle ==
  /\ evaluator = Det_init
  /\ session = IdleSession
  /\ n_evaluate = 0
  /\ last_call = Call("__init__", "")
  /\ gt_since_clear = {}
  /\ det_since_clear = {}

\* IouSimilarity before any call
IouIdle ==
  /\ groundtruth_boxes = Scalar(0)
  /\ anchors = Scalar(0)
  /\ iou_pc = "call"
  /\ iou_exc = ""
  /\ intersections = Scalar(0)
  /\ gt_boxes_areas = Scalar(0)
  /\ boxes_areas = Scalar(0)
  /\ unions = Scalar(0)
  /\ iou_result = Scalar(0)

\* extract_features before any run
DelgIdle ==
  /\ image_list = <<>>
  /\ output_files = {}
  /\ delg_pc = "start"
  /\ image_index = 0
  /\ runs = 0
  /\ completed = {}
  /\ delg_log = {}

InitCtl == CtlInit /\ ExpIdle /\ CocoIdle /\ IouIdle /\ DelgIdle

InitExp == ExpInit /\ CtlIdle /\ CocoIdle /\ IouIdle /\ DelgIdle

InitCoco == CocoInit /\ CtlIdle /\ ExpIdle /\ IouIdle /\ DelgIdle

InitIou == IouInit /\ CtlIdle /\ ExpIdle /\ CocoIdle /\ DelgIdle

InitDelg == DelgInit /\ CtlIdle /\ ExpIdle /\ CocoIdle /\ IouIdle

SpecCtl == InitCtl /\ [][CtlNext]_vars

SpecExp == InitExp /\ [][ExpNext]_vars

SpecCoco == InitCoco /\ [][CocoNext]_vars

SpecIou == InitIou /\ [][IouNext]_vars

SpecDelg == InitDelg /\ [][DelgNext]_vars

====
